---- MODULE Spec2Model ----
(***************************************************************************)
(* Model of src/streamlit_app.py: the reference tables FATLIQUOR_SPECS and *)
(* VEG_SPECS, the class PlatinumIndustrialTwin (__init__ and simulate) and *)
(* the Streamlit script that reads the sidebar widgets and calls simulate  *)
(* on every rerun.                                                         *)
(*                                                                         *)
(* Numbers.  The program computes in binary floating point.  The model     *)
(* computes in decimal floating point with a four digit mantissa: a number *)
(* is a record [m |-> mantissa, e |-> exponent] standing for m * 10^e,     *)
(* with 1000 <= |m| <= 9999 or m = 0.  Every arithmetic operation rounds   *)
(* its exact result to the nearest representable number (ties to even),    *)
(* as the float operations of the program do, so the model keeps what      *)
(* matters of float arithmetic: relative precision, rounding after each    *)
(* operation, and a division that faults exactly on a zero divisor.        *)
(*                                                                         *)
(* Locals of simulate are passed from one definition to the next as        *)
(* parameters, so that each is computed once, as an assignment does.       *)
(***************************************************************************)
EXTENDS Integers, Sequences, FiniteSets, TLC

\* ------------------------------------------------------------------------
\* Decimal floating point
\* ------------------------------------------------------------------------

\* digits of a mantissa: the precision of the model's floats (the product of
\* two mantissas has to fit the model checker's integers)
MantDigits == 4

Pow10(k) == <<1, 10, 100, 1000, 10000, 100000, 1000000,
              10000000, 100000000, 1000000000>>[k + 1]

\* smallest normal mantissa
MantLo == Pow10(MantDigits - 1)

\* one above the largest mantissa
MantHi == Pow10(MantDigits)

Abs(n) == IF n < 0 THEN -n ELSE n

Sgn(n) == IF n < 0 THEN -1 ELSE 1

NumDigits(a) ==
    IF a < 10 THEN 1 ELSE IF a < 100 THEN 2 ELSE IF a < 1000 THEN 3
    ELSE IF a < 10000 THEN 4 ELSE IF a < 100000 THEN 5
    ELSE IF a < 1000000 THEN 6 ELSE IF a < 10000000 THEN 7
    ELSE IF a < 100000000 THEN 8 ELSE IF a < 1000000000 THEN 9 ELSE 10

\* quotient q and remainder r of a division by 2 * half, to the nearest integer,
\* ties to even
RoundQR(q, r, half) == IF r > half \/ (r = half /\ q % 2 = 1) THEN q + 1 ELSE q

\* a / 10^k rounded to the nearest integer, ties to even (a >= 0, k >= 1)
RoundShift(a, k) == RoundQR(a \div Pow10(k), a % Pow10(k), 5 * Pow10(k - 1))

FZero == [m |-> 0, e |-> 0]

\* m * 10^e when |m| rounded to four digits is q and k digits were dropped
NormQ(m, e, k, q) ==
    IF q = MantHi THEN [m |-> Sgn(m) * MantLo, e |-> e + k + 1]
    ELSE [m |-> Sgn(m) * q, e |-> e + k]

\* m * 10^e for a mantissa m of d digits
NormD(m, e, d) ==
    IF d <= MantDigits
    THEN [m |-> m * Pow10(MantDigits - d), e |-> e - (MantDigits - d)]
    ELSE NormQ(m, e, d - MantDigits, RoundShift(Abs(m), d - MantDigits))

\* the float nearest to m * 10^e
Norm(m, e) == IF m = 0 THEN FZero ELSE NormD(m, e, NumDigits(Abs(m)))

\* a decimal literal: Dec(24, -1) is 2.4
Dec(n, e) == Norm(n, e)

Num(n) == Norm(n, 0)

FNeg(a) == [m |-> -a.m, e |-> IF a.m = 0 THEN 0 ELSE a.e]

FMul(a, b) == Norm(a.m * b.m, a.e + b.e)

\* the quotient of n by |b.m| with a sticky last digit, signed and rounded
DivN(a, b, n) ==
    Norm(Sgn(a.m) * Sgn(b.m) * ((n \div Abs(b.m)) * 10 + (IF n % Abs(b.m) = 0 THEN 0 ELSE 1)),
         a.e - b.e - (MantDigits + 2))

\* a / b for b # 0
FDiv(a, b) == DivN(a, b, Abs(a.m) * Pow10(MantDigits + 1))

\* hi + lo for hi.e >= lo.e, both nonzero
Align(hi, lo) ==
    IF hi.e - lo.e > MantDigits THEN hi
    ELSE Norm(hi.m * Pow10(hi.e - lo.e) + lo.m, lo.e)

FAdd(a, b) ==
    IF a.m = 0 THEN b
    ELSE IF b.m = 0 THEN a
    ELSE IF a.e >= b.e THEN Align(a, b) ELSE Align(b, a)

FSub(a, b) == FAdd(a, FNeg(b))

FLt(a, b) == FSub(a, b).m < 0

FLe(a, b) == FSub(a, b).m <= 0

FMax(a, b) == IF FLt(a, b) THEN b ELSE a

FMin(a, b) == IF FLt(b, a) THEN b ELSE a

\* round(x, nd): x to nd decimal places
FRound(x, nd) ==
    IF x.m = 0 \/ x.e >= -nd THEN x
    ELSE IF (-nd) - x.e > MantDigits + 1 THEN FZero
    ELSE Norm(Sgn(x.m) * RoundShift(Abs(x.m), (-nd) - x.e), -nd)

\* most terms summed of a series (the sums below stop long before it)
SeriesTerms == 40

\* math.exp(x) by its power series, summed in float arithmetic until a term
\* no longer changes the sum: t is the k-th term, acc the sum before it
RECURSIVE ExpSum(_, _, _, _)
ExpAcc(x, t, k, acc, s) ==
    IF k > SeriesTerms \/ s = acc THEN s
    ELSE ExpSum(x, FDiv(FMul(t, x), Num(k + 1)), k + 1, s)

ExpSum(x, t, k, acc) == ExpAcc(x, t, k, acc, FAdd(acc, t))

FExp(x) == IF x.m = 0 THEN Num(1) ELSE ExpSum(x, x, 1, Num(1))

\* math.log(t) for t > 0, as 2 * atanh(z) with z = (t - 1) / (t + 1):
\* q is z^(2k+1), acc the sum before its term
RECURSIVE LnSum(_, _, _, _)
LnAcc(z2, q, k, acc, s) ==
    IF k > SeriesTerms \/ s = acc THEN s
    ELSE LnSum(z2, FMul(q, z2), k + 1, s)

LnSum(z2, q, k, acc) == LnAcc(z2, q, k, acc, FAdd(acc, FDiv(q, Num(2 * k + 1))))

LnZ(z, z2) == FMul(Num(2), LnSum(z2, FMul(z, z2), 1, z))

LnOf(z) == IF z.m = 0 THEN FZero ELSE LnZ(z, FMul(z, z))

FLn(t) == LnOf(FDiv(FSub(t, Num(1)), FAdd(t, Num(1))))

\* t ** y for t > 0
FPow(t, y) == FExp(FMul(y, FLn(t)))

\* ------------------------------------------------------------------------
\* The program
\* ------------------------------------------------------------------------

VARIABLES
    FATLIQUOR_SPECS,   \* module global: oil name -> properties
    VEG_SPECS,         \* module global: tannin name -> properties
    twin,              \* the PlatinumIndustrialTwin object: thick, cr_offer, ph
    args,              \* the arguments of the latest simulate call
    res,               \* what the latest simulate call returned
    first              \* the first call made on the object: its arguments and result

vars == <<FATLIQUOR_SPECS, VEG_SPECS, twin, args, res, first>>

\* what a call can come to: Python's None, or the exception raised by a division
\* by zero; a returned dictionary is a record with the fields Zeta, Pen, ...
None == [value |-> "None"]

ZeroDivisionError == [raised |-> "ZeroDivisionError"]

\* no call made yet; no object built yet
NoCall == [called |-> FALSE]

NoObject == [built |-> FALSE]

OilSpec(stability, pen, soft, cloud_point, spue_f, grease_drag) ==
    [stability |-> stability, pen |-> pen, soft |-> soft,
     cloud_point |-> cloud_point, spue_f |-> spue_f, grease_drag |-> grease_drag]

FatliquorTable ==
    [o \in {"Sulphated Fish Oil", "Sulphited Fish Oil", "Sulphated Vegetable Oil",
            "Synthetic Waterproofing", "Phosphoric Ester", "Raw/Neutral Oil"} |->
        CASE o = "Sulphated Fish Oil" ->
               OilSpec(Num(2), Dec(4, -1), Dec(9, -1), Num(18), Dec(8, -1), Dec(6, -1))
          [] o = "Sulphited Fish Oil" ->
               OilSpec(Num(8), Dec(9, -1), Dec(7, -1), Num(5), Dec(2, -1), Dec(1, -1))
          [] o = "Sulphated Vegetable Oil" ->
               OilSpec(Num(3), Dec(5, -1), Dec(8, -1), Num(12), Dec(4, -1), Dec(3, -1))
          [] o = "Synthetic Waterproofing" ->
               OilSpec(Num(6), Dec(7, -1), Dec(4, -1), Num(2), Dec(1, -1), Dec(4, -1))
          [] o = "Phosphoric Ester" ->
               OilSpec(Num(9), Dec(8, -1), Dec(8, -1), Num(0), Dec(5, -2), Dec(5, -2))
          [] o = "Raw/Neutral Oil" ->
               OilSpec(Num(1), Dec(2, -1), Dec(12, -1), Num(25), Dec(12, -1), Dec(9, -1))]

VegTable ==
    [n \in {"None", "Tara", "Mimosa", "Chestnut"} |->
        CASE n = "None" -> [zeta |-> Num(0), fill |-> Num(0), astringency |-> Num(0)]
          [] n = "Tara" ->
               [zeta |-> Num(25), fill |-> Dec(145, -2), astringency |-> Dec(1, -1)]
          [] n = "Mimosa" ->
               [zeta |-> Num(-6), fill |-> Dec(115, -2), astringency |-> Dec(5, -1)]
          [] n = "Chestnut" ->
               [zeta |-> Num(-18), fill |-> Dec(85, -2), astringency |-> Dec(13, -1)]]

\* __init__
NewTwin(thick, cr_offer, ph_val) == [thick |-> thick, cr_offer |-> cr_offer, ph |-> ph_val]

Chaser == "Chaser (Core Heavy)"

total_oil(a) == FAdd(FAdd(a.off1, a.off2), a.off3)

veg_fill_gain(v, veg_off) == FMul(FMul(veg_off, v.fill), Dec(28, -2))

astringency_loss(self, v, veg_off) ==
    IF FLt(self.ph, Num(5)) THEN FMul(FMul(veg_off, v.astringency), Dec(18, -2))
    ELSE FZero

eff_neutral_ph(self, pickle_type) ==
    IF pickle_type = Chaser THEN FAdd(self.ph, Dec(45, -2)) ELSE self.ph

core_barrier(self, pickle_type) ==
    IF pickle_type = Chaser
    THEN FMul(FMul(self.cr_offer, Dec(48, -2)), FDiv(self.thick, Dec(15, -1)))
    ELSE FMul(self.cr_offer, Dec(22, -2))

surface_drag(pickle_type) == IF pickle_type = Chaser THEN Dec(50, -2) ELSE Dec(138, -2)

\* case_hard with the hardening of the Chaser branch left at 1.0
case_hard_flat(pickle_type) == Num(1)

case_hard(pickle_type) == IF pickle_type = Chaser THEN Dec(155, -2) ELSE Num(1)

ph_stress(eff_ph) == FExp(FMax(FZero, FSub(Dec(52, -1), eff_ph)))

base_charge(self, stress) ==
    FAdd(FMul(self.cr_offer, Dec(215, -1)), FMul(stress, Num(27)))

soup_masking(a, v) ==
    FAdd(FAdd(FMul(a.syn, Num(16)), FMul(a.nsa, Num(48))), v.zeta)

eff_zeta(base, drag, masking) == FSub(FMul(base, drag), masking)

\* math.pi
Pi == Dec(3142, -3)

v_peripheral(diameter, rpm) == FDiv(FMul(FMul(Pi, diameter), rpm), Num(60))

furn_mod(furniture) ==
    CASE furniture = "None" -> Dec(45, -2)
      [] furniture = "Pegs" -> Dec(115, -2)
      [] furniture = "Hybrid" -> Dec(155, -2)
      [] OTHER -> Dec(115, -2)

\* drop_mod falling with the distance of the fill from 40 on either side
drop_mod_peaked(load_factor) ==
    FMax(Dec(1, -1),
         FSub(Num(1), FDiv(FMax(FSub(load_factor, Num(40)), FSub(Num(40), load_factor)),
                           Num(100))))

drop_mod(load_factor) ==
    FMax(Dec(1, -1), FSub(Num(1), FDiv(FSub(load_factor, Num(40)), Num(100))))

kinetic_oomph(vp, weight, diameter, drop, furn, duration) ==
    FMul(FMul(vp,
              FDiv(FMul(FMul(FMul(FMul(weight, Dec(981, -2)),
                                  FMul(diameter, Dec(75, -2))), drop), furn),
                   Num(1000))),
         FDiv(duration, Num(60)))

mech_punch(self, vp, furn, duration) ==
    FDiv(FMul(FMul(vp, furn), FDiv(duration, Num(45))), FAdd(self.thick, Dec(5, -1)))

oil_mobility(temp_fat) == FAdd(Num(1), FDiv(FSub(temp_fat, Num(35)), Num(55)))

temp_jump(temp_fat, temp_retan) == FMax(FZero, FSub(temp_fat, temp_retan))

fixation_rate(jump) == FAdd(Num(1), FMul(jump, Dec(7, -2)))

\* Weighted with off1 repeated in the three terms
WeightedByFirstOffer(a, key) ==
    FAdd(FAdd(FMul(FATLIQUOR_SPECS[a.o1][key], a.off1),
              FMul(FATLIQUOR_SPECS[a.o2][key], a.off1)),
         FMul(FATLIQUOR_SPECS[a.o3][key], a.off1))

\* the offer-weighted sum of one property of the three oils (the numerator of a blend)
Weighted(a, key) ==
    FAdd(FAdd(FMul(FATLIQUOR_SPECS[a.o1][key], a.off1),
              FMul(FATLIQUOR_SPECS[a.o2][key], a.off2)),
         FMul(FATLIQUOR_SPECS[a.o3][key], a.off3))

\* mix_pen_base, avg_cloud, spue_f, grease_drag: total_oil(a) is not zero
Blend(a, key) == FDiv(Weighted(a, key), total_oil(a))

diff_res(self, barrier, hard, fixation) ==
    FMul(FMul(FMul(FPow(self.thick, Dec(27, -1)), FAdd(Num(1), barrier)), hard), fixation)

\* the numerator and the denominator of the resistance ratio of pen_score
resistance(zeta, dres) == FMul(FMul(zeta, Dec(42, -3)), dres)

push(mix_pen_base, punch, mobility) ==
    FAdd(FMul(FMul(mix_pen_base, punch), mobility), Dec(1, -1))

climate_impact(climate) == IF climate = "Tropical" THEN Dec(18, -1) ELSE Dec(12, -1)

\* pen_score is 100 / denom and not zero, so neither is pen_score / 20
spue_index(a, c, pen_score) ==
    FDiv(FMul(FMul(FMul(c.spue_f, c.total_oil), c.ph_stress), climate_impact(a.climate)),
         FDiv(pen_score, Num(20)))

adhesion_index(c, spue) ==
    FSub(FSub(Num(100), FMul(spue, Num(15))), FMul(c.grease_drag, Num(12)))

swelling(self) == FMax(FZero, FMul(FSub(self.ph, Dec(42, -1)), Dec(245, -2)))

climate_mod(climate) == IF climate = "Temperate" THEN Num(1) ELSE Dec(17, -1)

base_yield(swell, gain, loss, total) ==
    FSub(FSub(FAdd(FAdd(Num(94), swell), gain), loss), FMul(total, Dec(115, -2)))

temp_strict(vac_temp) == FDiv(FSub(vac_temp, Num(25)), Num(35))

brace_effect(veg_off) == FSub(Num(1), FMul(veg_off, Dec(4, -2)))

striction_loss(self, a) ==
    FMul(FMul(FMul(FMul(self.thick, Dec(25, -1)), FAdd(Num(1), temp_strict(a.vac_temp))),
              FAdd(Num(1), FMul(self.cr_offer, Dec(20, -2)))),
         brace_effect(a.veg_off))

area_yield(self, a, base) ==
    IF a.dry_method = "Air Drying"
    THEN FSub(base, FMul(FMul(self.thick, Dec(45, -2)), climate_mod(a.climate)))
    ELSE FSub(FSub(base, striction_loss(self, a)),
              FMul(Dec(26, -1), climate_mod(a.climate)))

PenOut(pen_score) == FRound(FMin(Num(100), pen_score), 1)

BreakOut(pen_score, stress) ==
    FRound(FMax(Num(1),
                FMin(Num(5), FAdd(FSub(Dec(56, -1), FDiv(pen_score, Num(17))),
                                  FMul(stress, Dec(55, -2))))), 1)

SpueOut(spue) == FRound(FMin(Num(5), spue), 2)

AdhesionOut(adhesion) == FRound(FMax(FZero, adhesion), 1)

\* simulate without its guard
EmptyRecipeMissing(a) == FALSE

\* the guard of simulate: nothing to compute
EmptyRecipe(a) == total_oil(a).m = 0

\* sections 1 to 5 and the blends of sections 6 and 7: the locals of simulate
\* that are computed from the arguments and the tables alone
Recipe(self, a) ==
    [total_oil |-> total_oil(a),
     veg_fill_gain |-> veg_fill_gain(VEG_SPECS[a.veg], a.veg_off),
     astringency_loss |-> astringency_loss(self, VEG_SPECS[a.veg], a.veg_off),
     core_barrier |-> core_barrier(self, a.pickle_type),
     ph_stress |-> ph_stress(eff_neutral_ph(self, a.pickle_type)),
     v_peripheral |-> v_peripheral(a.diameter, a.rpm),
     furn_mod |-> furn_mod(a.furniture),
     temp_jump |-> temp_jump(a.temp_fat, a.temp_retan),
     mix_pen_base |-> Blend(a, "pen"),
     avg_cloud |-> Blend(a, "cloud_point"),
     spue_f |-> Blend(a, "spue_f"),
     grease_drag |-> Blend(a, "grease_drag"),
     swelling |-> swelling(self)]

\* the locals computed from those: charge, mechanics and diffusion resistance
Kinetics(self, a, c) ==
    [eff_zeta |-> eff_zeta(base_charge(self, c.ph_stress), surface_drag(a.pickle_type),
                           soup_masking(a, VEG_SPECS[a.veg])),
     kinetic_oomph |-> kinetic_oomph(c.v_peripheral, a.weight, a.diameter,
                                     drop_mod(a.load_factor), c.furn_mod, a.duration),
     mech_punch |-> mech_punch(self, c.v_peripheral, c.furn_mod, a.duration),
     diff_res |-> diff_res(self, c.core_barrier, case_hard(a.pickle_type),
                           fixation_rate(c.temp_jump))]

\* 1 + resistance / push, the divisor of pen_score (push is at least 0.1)
Denominator(a, c, k) ==
    FAdd(Num(1), FDiv(resistance(k.eff_zeta, k.diff_res),
                      push(c.mix_pen_base, k.mech_punch, oil_mobility(a.temp_fat))))

\* section 9: the dictionary returned
Output(self, a, c, k, pen_score, spue) ==
    [Zeta |-> FRound(k.eff_zeta, 1),
     Pen |-> PenOut(pen_score),
     Yield |-> FRound(area_yield(self, a,
                          base_yield(c.swelling, c.veg_fill_gain, c.astringency_loss,
                                     c.total_oil)), 2),
     Oomph |-> FRound(k.kinetic_oomph, 2),
     Punch |-> FRound(k.mech_punch, 2),
     Barrier |-> FRound(c.core_barrier, 2),
     Break |-> BreakOut(pen_score, c.ph_stress),
     Spue |-> SpueOut(spue),
     Adhesion |-> AdhesionOut(adhesion_index(c, spue)),
     Cloud |-> FRound(c.avg_cloud, 1),
     Jump |-> c.temp_jump,
     Swelling |-> FRound(c.swelling, 2),
     Veg_Gain |-> FRound(c.veg_fill_gain, 2)]

\* sections 7 to 9, once pen_score is known
Quality(self, a, c, k, pen_score) ==
    Output(self, a, c, k, pen_score, spue_index(a, c, pen_score))

\* section 6: the division by denom faults when denom is zero
Strike(self, a, c, k, denom) ==
    IF denom.m = 0 THEN ZeroDivisionError
    ELSE Quality(self, a, c, k, FDiv(Num(100), denom))

Penetration(self, a, c, k) == Strike(self, a, c, k, Denominator(a, c, k))

Mechanics(self, a, c) == Penetration(self, a, c, Kinetics(self, a, c))

\* PlatinumIndustrialTwin.simulate: what the call returns, or ZeroDivisionError
\* when it divides by zero (by total_oil, were the guard to let zero through,
\* or by the denominator of pen_score)
simulate(self, a) ==
    IF EmptyRecipe(a) THEN None
    ELSE IF total_oil(a).m = 0 THEN ZeroDivisionError
    ELSE Mechanics(self, a, Recipe(self, a))

\* simulate keeping the effective pH in self.ph
SelfAfterStoresPh(self, a) == [self EXCEPT !.ph = eff_neutral_ph(self, a.pickle_type)]

\* the object after a simulate call: simulate assigns no attribute
SelfAfter(self, a) == self

\* ------------------------------------------------------------------------
\* The callers
\* ------------------------------------------------------------------------

\* the values the script's widgets start with, and the constants of its call
DefaultTwin == NewTwin(Dec(24, -1), Dec(45, -1), Dec(52, -1))

DefaultArgs ==
    [o1 |-> "Sulphited Fish Oil", off1 |-> Num(6),
     o2 |-> "Raw/Neutral Oil", off2 |-> Num(2),
     o3 |-> "Phosphoric Ester", off3 |-> Num(1),
     syn |-> Num(6), nsa |-> Num(1), veg |-> "None", veg_off |-> Num(5),
     duration |-> Num(120), load_factor |-> Num(40), furniture |-> "Hybrid",
     rpm |-> Num(14), diameter |-> Dec(35, -1), weight |-> Num(2000),
     temp_fat |-> Num(55), temp_retan |-> Num(35), vac_temp |-> Num(30),
     dry_method |-> "Air Drying", climate |-> "Temperate",
     pickle_type |-> "Equilibrium", is_wp |-> TRUE]

IsDict(r) == "Pen" \in DOMAIN r

InRange(x, lo, hi) == FLe(lo, x) /\ FLe(x, hi)

\* the ranges of the sidebar widgets
WithinWidgets(self, a) ==
    /\ InRange(a.veg_off, Num(0), Num(20))
    /\ InRange(self.cr_offer, Num(0), Num(8))
    /\ InRange(self.ph, Num(4), Dec(65, -1))
    /\ a.pickle_type \in {"Equilibrium", Chaser}
    /\ \A off \in {a.off1, a.off2, a.off3} : InRange(off, Num(0), Num(15))
    /\ InRange(a.syn, Num(0), Num(15))
    /\ InRange(a.nsa, Num(0), Num(4))
    /\ InRange(a.rpm, Num(2), Num(22))
    /\ InRange(a.duration, Num(30), Num(300))
    /\ a.furniture \in {"None", "Pegs", "Hybrid"}
    /\ InRange(a.vac_temp, Num(25), Num(65))
    /\ InRange(a.temp_fat, Num(35), Num(65))
    /\ InRange(a.temp_retan, Num(20), Num(45))
    /\ InRange(self.thick, Dec(5, -1), Num(6))

\* the record kept of the first call on an object: the object it was made on, its
\* arguments, what it returned, and how many calls with other arguments were made
\* on the object since
CallRecord(self, a, ret, n) == [self |-> self, args |-> a, ret |-> ret, between |-> n]

\* most calls with other arguments that the record counts
MaxBetween == 2

\* PlatinumIndustrialTwin(thick, cr, ph).simulate(...): a new object, one call
Run(tw, a) ==
    /\ twin' = SelfAfter(tw, a)
    /\ args' = a
    /\ res' = simulate(tw, a)
    /\ first' = CallRecord(tw, a, res', 0)
    /\ UNCHANGED <<FATLIQUOR_SPECS, VEG_SPECS>>

\* --- the Streamlit script: one rerun per widget change ---

\* the sidebar widgets the script reads, by the name of the attribute or argument
\* each one feeds
TwinWidgets == {"thick", "cr_offer", "ph"}

Widgets == {"cr_offer", "ph", "thick", "pickle_type", "syn", "nsa", "veg", "rpm"}

WidgetRange(w) ==
    CASE w = "cr_offer" -> {Num(0), Num(4), Dec(45, -1)}
      [] w = "ph" -> {Num(4), Dec(52, -1)}
      [] w = "thick" -> {Num(1), Num(2), Dec(24, -1)}
      [] w = "pickle_type" -> {"Equilibrium", Chaser}
      [] w = "syn" -> {Num(0), Num(6)}
      [] w = "nsa" -> {Num(0), Num(1)}
      [] w = "veg" -> {"None", "Tara"}
      [] w = "rpm" -> {Num(2), Num(14), Num(22)}

\* one rerun of the script after widget w was set to x
Rerun(w, x) ==
    IF w \in TwinWidgets
    THEN Run([twin EXCEPT ![w] = x], args)
    ELSE Run(twin, [args EXCEPT ![w] = x])

\* the module is loaded and the widgets hold their defaults; the script's call
\* has not run yet
Init ==
    /\ FATLIQUOR_SPECS = FatliquorTable
    /\ VEG_SPECS = VegTable
    /\ twin = DefaultTwin
    /\ args = DefaultArgs
    /\ res = NoCall
    /\ first = NoCall

Next == \E w \in Widgets : \E x \in WidgetRange(w) : Rerun(w, x)

Spec == Init /\ [][Next]_vars

\* --- simulate called directly, on any object with any arguments ---

\* a recipe at the other end of the widgets' ranges
OtherArgs ==
    [DefaultArgs EXCEPT !.syn = Num(15), !.nsa = Num(4), !.veg = "Chestnut",
                        !.veg_off = Num(20), !.duration = Num(300), !.furniture = "None",
                        !.rpm = Num(22), !.temp_fat = Num(35), !.temp_retan = Num(45),
                        !.vac_temp = Num(45), !.dry_method = "Partial Vacuum",
                        !.climate = "Tropical", !.pickle_type = Chaser]

\* a recipe inside the widgets' ranges, with the object FaultTwin
FaultArgs ==
    [DefaultArgs EXCEPT !.off1 = Dec(63, -2), !.off2 = Dec(582, -2), !.off3 = Dec(115, -1),
                        !.syn = Dec(1254, -2), !.nsa = Dec(42, -2), !.rpm = Num(17),
                        !.duration = Num(255)]

FaultTwin == NewTwin(Num(1), Dec(319, -2), Dec(52, -1))

CallTwins ==
    {DefaultTwin, FaultTwin, NewTwin(Num(6), Num(8), Num(4)),
     NewTwin(Dec(5, -1), Num(0), Dec(65, -1))}

OilNames ==
    {<<"Sulphited Fish Oil", "Raw/Neutral Oil", "Phosphoric Ester">>,
     <<"Raw/Neutral Oil", "Sulphated Fish Oil", "Synthetic Waterproofing">>,
     <<"Sulphated Vegetable Oil", "Sulphited Fish Oil", "Raw/Neutral Oil">>}

Offers ==
    {<<Num(0), Num(0), Num(0)>>, <<Dec(1499, -2), Num(0), Num(0)>>,
     <<Num(0), Num(2), Num(0)>>, <<Num(0), Num(0), Num(1)>>,
     <<Num(6), Num(2), Num(1)>>}

WithOils(a, n, off) ==
    [a EXCEPT !.o1 = n[1], !.o2 = n[2], !.o3 = n[3],
              !.off1 = off[1], !.off2 = off[2], !.off3 = off[3]]

CallArgs ==
    {WithOils(a, n, off) : a \in {DefaultArgs, OtherArgs}, n \in OilNames, off \in Offers}
        \cup {FaultArgs}

NextCalls == \E tw \in CallTwins : \E a \in CallArgs : Run(tw, a)

SpecCalls == Init /\ [][NextCalls]_vars

\* --- one object, called again and again ---

ObjectTwins == {DefaultTwin, NewTwin(Num(1), Num(0), Num(4))}

ObjectArgs ==
    {[DefaultArgs EXCEPT !.load_factor = l] : l \in {Num(0), Num(30), Num(40), Num(45), Num(100)}}
        \cup {[DefaultArgs EXCEPT !.pickle_type = Chaser],
              [DefaultArgs EXCEPT !.pickle_type = Chaser, !.load_factor = Num(100)],
              WithOils(DefaultArgs, <<"Sulphited Fish Oil", "Raw/Neutral Oil", "Phosphoric Ester">>,
                       <<Num(0), Num(0), Num(0)>>)}

InitObject ==
    /\ FATLIQUOR_SPECS = FatliquorTable
    /\ VEG_SPECS = VegTable
    /\ twin = NoObject
    /\ args = NoCall
    /\ res = NoCall
    /\ first = NoCall

\* PlatinumIndustrialTwin(thick, cr_offer, ph_val)
Construct(thick, cr_offer, ph_val) ==
    /\ twin' = NewTwin(thick, cr_offer, ph_val)
    /\ args' = NoCall
    /\ res' = NoCall
    /\ first' = NoCall
    /\ UNCHANGED <<FATLIQUOR_SPECS, VEG_SPECS>>

\* the count of calls with other arguments, after a call with arguments a
Counted(rec, a) ==
    IF a # rec.args /\ rec.between < MaxBetween
    THEN [rec EXCEPT !.between = rec.between + 1]
    ELSE rec

\* twin.simulate(...)
Simulate(a) ==
    /\ twin # NoObject
    /\ res' = simulate(twin, a)
    /\ twin' = SelfAfter(twin, a)
    /\ args' = a
    /\ first' = IF first = NoCall THEN CallRecord(twin, a, res', 0) ELSE Counted(first, a)
    /\ UNCHANGED <<FATLIQUOR_SPECS, VEG_SPECS>>

NextObject ==
    \/ \E tw \in ObjectTwins : Construct(tw.thick, tw.cr_offer, tw.ph)
    \/ \E a \in ObjectArgs : Simulate(a)

SpecObject == InitObject /\ [][NextObject]_vars

\* ------------------------------------------------------------------------
\* Properties
\* ------------------------------------------------------------------------

\* the latest call was made, with arguments inside the widgets' ranges
CalledWithinWidgets == res # NoCall /\ WithinWidgets(twin, args)

TotalOfferIsZero(a) == FAdd(FAdd(a.off1, a.off2), a.off3) = FZero

\* C1: a call whose total oil offer off1 + off2 + off3 is 0 returns None,
\* whatever its other arguments and the object it is made on.
C1_ZeroOfferReturnsNone == (res # NoCall /\ TotalOfferIsZero(args)) => res = None

C1_Witness ==
    /\ res = None
    /\ TotalOfferIsZero(args)
    /\ args.pickle_type = Chaser
    /\ args.dry_method = "Partial Vacuum"
    /\ args.o1 = "Raw/Neutral Oil"
    /\ twin = FaultTwin

\* C2: for arguments inside the widgets' ranges with a total oil offer above 0,
\* the reported Pen lies in [0, 100].
C2_PenWithin0And100 ==
    (CalledWithinWidgets /\ IsDict(res)) => InRange(res.Pen, Num(0), Num(100))

\* C3: for arguments inside the widgets' ranges with a total oil offer above 0,
\* the reported Spue lies in [0, 5].
C3_SpueWithin0And5 ==
    (CalledWithinWidgets /\ IsDict(res)) => InRange(res.Spue, Num(0), Num(5))

\* C4: for arguments inside the widgets' ranges with a total oil offer other
\* than 0, simulate returns a dictionary: no division faults, and None is only
\* returned for a zero total offer.
C4_NoDivisionFaults ==
    (CalledWithinWidgets /\ ~TotalOfferIsZero(args)) => IsDict(res)

\* a rerun that changed nothing but argument w, both calls returning a dictionary
OnlyArg(w) ==
    /\ twin' = twin
    /\ args' = [args EXCEPT ![w] = args'[w]]
    /\ args'[w] # args[w]
    /\ IsDict(res) /\ IsDict(res')
    /\ WithinWidgets(twin, args) /\ WithinWidgets(twin', args')

\* a rerun that changed nothing but attribute w of the object
OnlyAttr(w) ==
    /\ args' = args
    /\ twin' = [twin EXCEPT ![w] = twin'[w]]
    /\ twin'[w] # twin[w]
    /\ IsDict(res) /\ IsDict(res')
    /\ WithinWidgets(twin, args) /\ WithinWidgets(twin', args')

\* C5: of two calls that differ only in rpm, the one with the higher rpm
\* reports a Pen at least as high.
C5_PenRisesWithRpm ==
    [][OnlyArg("rpm") =>
          /\ FLt(args.rpm, args'.rpm) => FLe(res.Pen, res'.Pen)
          /\ FLt(args'.rpm, args.rpm) => FLe(res'.Pen, res.Pen)]_vars

\* C6: of two calls that differ only in the chrome offer, the one with the
\* higher offer reports a Pen at most as high.
C6_PenFallsWithChrome ==
    [][OnlyAttr("cr_offer") =>
          /\ FLt(twin.cr_offer, twin'.cr_offer) => FLe(res'.Pen, res.Pen)
          /\ FLt(twin'.cr_offer, twin.cr_offer) => FLe(res.Pen, res'.Pen)]_vars

\* of the two calls of a rerun that toggled the pickle type, the Chaser call
\* reports a Pen at most as high as the Equilibrium call
ChaserPenNotHigher ==
    /\ args'.pickle_type = Chaser => FLe(res'.Pen, res.Pen)
    /\ args.pickle_type = Chaser => FLe(res.Pen, res'.Pen)

\* C7 as stated: of two calls that differ only in the pickle type, the Chaser
\* call never reports a higher Pen than the Equilibrium call.
C7_ChaserNeverHigher == [][OnlyArg("pickle_type") => ChaserPenNotHigher]_vars

\* no masking agent (no syntan, no NSA, no vegetable tannin), a neutralization
\* pH of 5.2 or more, a thickness of 2.0 or more, a chrome offer of 4.0 or more
UnmaskedThickChromed(self, a) ==
    /\ a.syn = FZero /\ a.nsa = FZero /\ a.veg = "None"
    /\ FLe(Dec(52, -1), self.ph)
    /\ FLe(Num(2), self.thick)
    /\ FLe(Num(4), self.cr_offer)

\* C7: of two calls that differ only in the pickle type, made without masking
\* agents at pH >= 5.2, thickness >= 2.0 and chrome offer >= 4.0, the Chaser
\* call reports a Pen lower than or equal to that of the Equilibrium call.
C7_ChaserNotHigherUnmasked ==
    [][(OnlyArg("pickle_type") /\ UnmaskedThickChromed(twin, args)) => ChaserPenNotHigher]_vars

C7_Witness ==
    /\ IsDict(res)
    /\ args.pickle_type = Chaser
    /\ UnmaskedThickChromed(twin, args)
    /\ twin.thick = Num(2) /\ twin.cr_offer = Num(4)
    /\ FLt(res.Pen, simulate(twin, [args EXCEPT !.pickle_type = "Equilibrium"]).Pen)

BlendKeys == {"pen", "cloud_point", "spue_f", "grease_drag"}

\* exactly one of the three offers is not zero
OneOil(a) ==
    \/ a.off1 # FZero /\ a.off2 = FZero /\ a.off3 = FZero
    \/ a.off1 = FZero /\ a.off2 # FZero /\ a.off3 = FZero
    \/ a.off1 = FZero /\ a.off2 = FZero /\ a.off3 # FZero

\* the name of the oil whose offer is not zero
Sole(a) == IF a.off1 # FZero THEN a.o1 ELSE IF a.off2 # FZero THEN a.o2 ELSE a.o3

\* the arguments with the oil of the nonzero offer named in the three slots
SoleEverywhere(a) == [a EXCEPT !.o1 = Sole(a), !.o2 = Sole(a), !.o3 = Sole(a)]

\* x is y up to the rounding of two float operations, each of a relative error
\* of at most half a unit of the fourth digit
WithinTwoRoundings(x, y) ==
    FLe(FMax(FSub(x, y), FSub(y, x)), FMul(FMax(y, FNeg(y)), Dec(1, -3)))

\* the report and the result do not depend on the names in the zero-offer slots
SoleOilReported ==
    /\ res.Cloud = FRound(FATLIQUOR_SPECS[Sole(args)].cloud_point, 1)
    /\ res = simulate(twin, SoleEverywhere(args))

\* C8 as stated: with exactly one nonzero offer, each blended property equals
\* the table value of that oil, Cloud is its cloud_point, and the result does
\* not depend on the names in the zero-offer slots.
C8_BlendEqualsTableValue ==
    (IsDict(res) /\ OneOil(args)) =>
        /\ \A key \in BlendKeys : Blend(args, key) = FATLIQUOR_SPECS[Sole(args)][key]
        /\ SoleOilReported

\* C8: with exactly one nonzero offer, each blended property equals the table
\* value of that oil up to the rounding of the multiplication and the division
\* that compute it, Cloud is its cloud_point, and the result does not depend on
\* the names in the zero-offer slots.
C8_BlendIsTableValueRounded ==
    (IsDict(res) /\ OneOil(args)) =>
        /\ \A key \in BlendKeys :
              WithinTwoRoundings(Blend(args, key), FATLIQUOR_SPECS[Sole(args)][key])
        /\ SoleOilReported

C8_Witness ==
    /\ IsDict(res)
    /\ OneOil(args)
    /\ args.off1 = Dec(1499, -2)
    /\ args.o2 # Sole(args) /\ args.o3 # Sole(args)
    /\ Blend(args, "pen") # FATLIQUOR_SPECS[Sole(args)].pen
    /\ res.Cloud = Num(5)

OnlyLoadDiffers ==
    /\ first # NoCall
    /\ twin = first.self
    /\ args = [first.args EXCEPT !.load_factor = args.load_factor]
    /\ args.load_factor # first.args.load_factor
    /\ IsDict(res) /\ IsDict(first.ret)

ModerateFill == {Num(30), Num(40), Num(45)}

ExtremeFill == {Num(0), Num(100)}

\* C10 as stated: the fall efficiency is highest at a moderate fill of 30 to 45
\* and strictly lower at fill 0 and at fill 100, and it enters both Oomph and
\* Punch: a call at a moderate fill reports a higher Oomph and a higher Punch
\* than the same call at an extreme fill.
C10_PeakAtModerateFill ==
    (OnlyLoadDiffers /\ first.args.load_factor \in ExtremeFill
                     /\ args.load_factor \in ModerateFill) =>
        /\ FLt(first.ret.Oomph, res.Oomph)
        /\ FLt(first.ret.Punch, res.Punch)

\* C10: the fall efficiency falls as the fill rises from 0 to 100, so it is
\* highest at fill 0 and strictly lower at every higher fill, and it enters
\* Oomph only: of two calls that differ only in load_factor, the one with the
\* higher fill reports a strictly lower Oomph and the same Punch.
C10_EfficiencyFallsWithFill ==
    OnlyLoadDiffers =>
        /\ res.Punch = first.ret.Punch
        /\ FLt(first.args.load_factor, args.load_factor) => FLt(res.Oomph, first.ret.Oomph)
        /\ FLt(args.load_factor, first.args.load_factor) => FLt(first.ret.Oomph, res.Oomph)

C10_Witness ==
    /\ OnlyLoadDiffers
    /\ first.args.load_factor = Num(0)
    /\ args.load_factor = Num(40)
    /\ FLt(res.Oomph, first.ret.Oomph)

====
